---- MODULE Spec2Model ----
(***************************************************************************)
(* graphql2python.query.types: the seven pydantic entities (Variable,      *)
(* Argument, Field, InlineFragment, Fragment, Query, Operation), their     *)
(* construction-time validation and their render() methods.                *)
(*                                                                         *)
(* Python values are tagged records: [t |-> "str", s |-> <<atoms>>],       *)
(* [t |-> "int", i |-> n], [t |-> "bool", b |-> B], [t |-> "None"],        *)
(* [t |-> "list", xs |-> <<values>>] and one record per entity class.      *)
(* A str is a sequence of atoms; the newline is always an atom of its own, *)
(* the characters of names are one atom each, and the fixed text of a      *)
(* template is cut into atoms that hold no newline.                        *)
(***************************************************************************)
EXTENDS Integers, Sequences, FiniteSets, TLC

VARIABLES call, obj, result, writes

vars == <<call, obj, result, writes>>

(* ------------------------------ bounds ------------------------------- *)

\* longest list handed to a constructor
MaxList == 2
\* nesting depth of the selections handed to a constructor
MaxDepth == 3
\* field writes followed on one entity
MaxWrites == 1

(* --------------------------- Python values --------------------------- *)

None == [t |-> "None"]
\* a keyword argument the caller leaves out
Missing == [t |-> "Missing"]
Str(s) == [t |-> "str", s |-> s]
PyInt(i) == [t |-> "int", i |-> i]
Bool(b) == [t |-> "bool", b |-> b]
List(xs) == [t |-> "list", xs |-> xs]

NL == "\n"
SP == " "

Min(S) == CHOOSE m \in S : \A n \in S : m <= n

SeqsUpTo(S, n) == UNION {[1..k -> S] : k \in 0..n}

(* ------------------------- str.split / str.join ---------------------- *)

\* text.split("\n"): the pieces between the newlines, one more than there
\* are newlines
split(s) ==
    LET at == SelectSeq([i \in 1..Len(s) |-> i], LAMBDA i : s[i] = NL)
        n == Len(at)
    IN [j \in 1..(n + 1) |->
           SubSeq(s, IF j = 1 THEN 1 ELSE at[j - 1] + 1,
                     IF j = n + 1 THEN Len(s) ELSE at[j] - 1)]

RECURSIVE join(_, _)
\* sep.join(parts)
join(sep, parts) ==
    IF Len(parts) = 0 THEN <<>>
    ELSE IF Len(parts) = 1 THEN parts[1]
    ELSE parts[1] \o sep \o join(sep, Tail(parts))

\* GraphQL2PythonQuery._shift_line
_shift_line(text) == join(<<NL, SP, SP>>, split(text))

Digits == <<"0", "1", "2", "3", "4", "5", "6", "7", "8", "9">>

RECURSIVE IntToStr(_)
\* str(v) of a non-negative int
IntToStr(n) ==
    IF n < 10 THEN <<Digits[n + 1]>>
    ELSE IntToStr(n \div 10) \o <<Digits[(n % 10) + 1]>>

(* ------------------------- outcomes of a call ------------------------ *)

Returned(v) == [how |-> "returned", v |-> v]
Raised(e) == [how |-> "raised", exc |-> e]

\* what validating one field gives: a value, a validation error that
\* pydantic collects, or an exception that leaves the constructor at once
FOk(v) == [st |-> "ok", v |-> v]
FErr == [st |-> "err"]
FExc(e) == [st |-> "exc", exc |-> e]

(* ------------------------------ names -------------------------------- *)

Letter == {"a", "b", "c", "d", "e", "f", "g", "h", "i", "j", "k", "l", "m",
           "n", "o", "p", "q", "r", "s", "t", "u", "v", "w", "x", "y", "z",
           "A", "B", "C", "D", "E", "F", "G", "H", "I", "J", "K", "L", "M",
           "N", "O", "P", "Q", "R", "S", "T", "U", "V", "W", "X", "Y", "Z"}
Digit == {Digits[i] : i \in 1..Len(Digits)}

is_name_start(c) == c \in Letter \cup {"_"}
is_name_continue(c) == c \in Letter \cup Digit \cup {"_"}

\* graphql.assert_name: the name itself, TypeError for None, GraphQLError
\* for a str that is no name
assert_name(v) ==
    IF v = None THEN FExc("TypeError")
    ELSE IF Len(v.s) = 0 THEN FExc("GraphQLError")
    ELSE IF \E i \in 2..Len(v.s) : ~is_name_continue(v.s[i]) THEN FExc("GraphQLError")
    ELSE IF ~is_name_start(v.s[1]) THEN FExc("GraphQLError")
    ELSE FOk(v)

(* ------------------------ pydantic field types ----------------------- *)

\* pydantic's validator of a str field: a str as it is, an int as str(v)
str_validator(v) ==
    IF v.t = "str" THEN FOk(v)
    ELSE IF v.t = "int" THEN FOk(Str(IntToStr(v.i)))
    ELSE FErr

\* pydantic around a class validator: ValueError, TypeError and
\* AssertionError become an error of the field, any other exception (so
\* GraphQLError) leaves the constructor as it is
class_validator(r) ==
    IF r.st = "exc" /\ r.exc \in {"ValueError", "TypeError", "AssertionError"} THEN FErr
    ELSE r

\* a field that took its default: no validator runs on it
FDefault(v) == [st |-> "default", v |-> v]

\* the class validator of a field, whose outcome on the value is checked:
\* it runs only on a value that passed the type's validation, never on a
\* default
validated(r, checked) ==
    IF r.st = "ok" THEN class_validator(checked)
    ELSE IF r.st = "default" THEN FOk(r.v)
    ELSE r

\* the type's validation of a required field `x: str`
RequiredStr(v) ==
    IF v = Missing \/ v = None THEN FErr ELSE str_validator(v)

\* the type's validation of a field `x: Optional[str] = None`: a value
\* left out takes the default; None goes to the class validator as it is
OptionalStr(v) ==
    IF v = Missing THEN FDefault(None)
    ELSE IF v = None THEN FOk(None)
    ELSE str_validator(v)

NoCheck(v) == FOk(v)

\* a field `typename: bool = False`
BoolField(v) ==
    IF v = Missing THEN FOk(Bool(FALSE))
    ELSE IF v.t = "bool" THEN FOk(v)
    ELSE FErr

\* BaseModel.__init__ over the fields in the order of their declaration:
\* the first exception leaves at once, collected errors make a
\* ValidationError, otherwise the entity holds the validated values
validate_model(order, res, entity) ==
    LET excs == {i \in 1..Len(order) : res[order[i]].st = "exc"} IN
    IF excs # {} THEN Raised(res[order[Min(excs)]].exc)
    ELSE IF \E i \in 1..Len(order) : res[order[i]].st = "err" THEN Raised("ValidationError")
    ELSE Returned(entity)

(* ------------------------------ Variable ----------------------------- *)

graphql_variable_name(v) == assert_name(v)

NewVariable(kw) ==
    LET res ==
        [name |-> validated(RequiredStr(kw.name),
                 graphql_variable_name(RequiredStr(kw.name).v)),
         type |-> validated(RequiredStr(kw.type), NoCheck(RequiredStr(kw.type).v)),
         default |-> validated(OptionalStr(kw.default), NoCheck(OptionalStr(kw.default).v))]
    IN validate_model(<<"name", "type", "default">>, res,
        [t |-> "Variable",
         name |-> res.name.v,
         type |-> res.type.v,
         default |-> res.default.v])

\* variable.jinja2
variable_jinja2(name, type, default) ==
    <<"$">> \o name.s \o <<":", SP>> \o type.s
    \o (IF default # None /\ default.s # <<>> THEN <<SP, "=", SP>> \o default.s ELSE <<>>)

Variable_render(self) == variable_jinja2(self.name, self.type, self.default)

(* ------------------------------ Argument ----------------------------- *)

graphql_argument_name(v) == assert_name(v)

\* value: Union[str, 'Argument', List['Argument'], Variable] under
\* smart_union: a value of one of the four types is kept as it is, an int
\* is coerced by the str member, anything else matches no member
ArgumentValue(v) ==
    IF v = Missing \/ v = None THEN FErr
    ELSE IF v.t \in {"str", "Argument", "Variable"} THEN FOk(v)
    ELSE IF v.t = "list" THEN
        IF \A i \in 1..Len(v.xs) : v.xs[i].t = "Argument" THEN FOk(v) ELSE FErr
    ELSE str_validator(v)

NewArgument(kw) ==
    LET res ==
        [name |-> validated(RequiredStr(kw.name),
                 graphql_argument_name(RequiredStr(kw.name).v)),
         value |-> ArgumentValue(kw.value)]
    IN validate_model(<<"name", "value">>, res,
        [t |-> "Argument",
         name |-> res.name.v,
         value |-> res.value.v])

\* argument_key_value.jinja2
argument_key_value_jinja2(name, value) == name.s \o <<":", SP>> \o value.s

\* argument_key_argument.jinja2
argument_key_argument_jinja2(name, argument) ==
    name.s \o <<":", SP, "{", NL, SP, SP>> \o argument \o <<NL, "}">>

\* argument_key_variable.jinja2
argument_key_variable_jinja2(name, value) == name.s \o <<":", SP, "$">> \o value.s

\* argument_key_arguments.jinja2 (the braces are those of the docstring of
\* Argument, Example 2)
argument_key_arguments_jinja2(name, arguments) ==
    name.s \o <<":", SP, "{", NL, SP, SP>> \o join(<<NL, SP, SP>>, arguments) \o <<NL, "}">>

\* the isinstance chain of Argument.render with the Variable test left out
Argument_shape_no_variable(self) ==
    IF self.value.t = "str" THEN "key_value"
    ELSE IF self.value.t = "Argument" THEN "key_argument"
    ELSE "key_arguments"

\* the isinstance chain of Argument.render: the template it selects
Argument_shape(self) ==
    IF self.value.t = "str" THEN "key_value"
    ELSE IF self.value.t = "Argument" THEN "key_argument"
    ELSE IF self.value.t = "Variable" THEN "key_variable"
    ELSE "key_arguments"

RECURSIVE render(_)
RECURSIVE render_raises(_)

\* the binding of the variable template that carries the whole declaration
Argument_variable_binding_rendered(self) == Str(render(self.value))

\* value=self.value.name
Argument_variable_binding(self) == self.value.name

shifted(v) == _shift_line(render(v))

Argument_render(self) ==
    CASE Argument_shape(self) = "key_value" ->
            argument_key_value_jinja2(self.name, self.value)
      [] Argument_shape(self) = "key_argument" ->
            argument_key_argument_jinja2(self.name, shifted(self.value))
      [] Argument_shape(self) = "key_variable" ->
            argument_key_variable_jinja2(self.name, Argument_variable_binding(self))
      [] OTHER ->
            argument_key_arguments_jinja2(self.name, [i \in 1..Len(self.value.xs) |-> shifted(self.value.xs[i])])

Entities == {"Variable", "Argument", "Field", "InlineFragment", "Fragment", "Query",
             "Operation"}

\* `for x in v`, then x.render(): TypeError when v is no list, AttributeError
\* when an element has no render, and whatever the element's render raises
each_raises(v) ==
    \/ v.t # "list"
    \/ \E i \in 1..Len(v.xs) : v.xs[i].t \notin Entities \/ render_raises(v.xs[i])

Argument_raises(self) ==
    CASE Argument_shape(self) = "key_value" -> FALSE
      [] Argument_shape(self) = "key_argument" -> render_raises(self.value)
      [] Argument_shape(self) = "key_variable" -> FALSE
      [] OTHER -> each_raises(self.value)

(* -------------------- the selections of a container ------------------ *)

\* one member of List[Union[str, 'Field', 'InlineFragment', 'Fragment']]
\* under smart_union (the inputs hold no entity of a fourth class that the
\* third pass could coerce)
union_child(e) ==
    IF e.t \in {"str", "Field", "InlineFragment", "Fragment"} THEN FOk(e)
    ELSE IF e.t = "int" THEN str_validator(e)
    ELSE FErr

\* fields: List[Union[...]] = PydanticField(default_factory=list) with the
\* a list left out is the default
SelectionList(v) ==
    IF v = Missing THEN FDefault(List(<<>>))
    ELSE IF v.t # "list" THEN FErr
    ELSE IF \E i \in 1..Len(v.xs) : union_child(v.xs[i]).st # "ok" THEN FErr
    ELSE FOk(List([i \in 1..Len(v.xs) |-> union_child(v.xs[i]).v]))

\* arguments: List[Argument] = PydanticField(default_factory=list)
ArgumentList(v) ==
    IF v = Missing THEN FOk(List(<<>>))
    ELSE IF v.t # "list" THEN FErr
    ELSE IF \A i \in 1..Len(v.xs) : v.xs[i].t = "Argument" THEN FOk(v) ELSE FErr

\* the helper without the Fragment case: the fragment is rendered in place
_render_field_expanding(v) ==
    IF v.t = "str" THEN v.s
    ELSE _shift_line(render(v))

\* the helper with the Field and InlineFragment text left unshifted
_render_field_unshifted(v) ==
    IF v.t = "str" THEN v.s
    ELSE IF v.t = "Fragment" THEN <<"...">> \o v.name.s
    ELSE render(v)

\* GraphQL2PythonQuery._render_field
_render_field(v) ==
    IF v.t = "str" THEN v.s
    ELSE IF v.t = "Fragment" THEN <<"...">> \o v.name.s
    ELSE _shift_line(render(v))

\* `for field in self.fields`, then self._render_field(field)
fields_raise(v) ==
    \/ v.t # "list"
    \/ \E i \in 1..Len(v.xs) :
          /\ v.xs[i].t \notin {"str", "Fragment"}
          /\ v.xs[i].t \notin Entities \/ render_raises(v.xs[i])

\* the parenthesised arguments of the field, inline fragment and query
\* templates: left out when there is none
arguments_block(arguments) ==
    IF Len(arguments) = 0 THEN <<>>
    ELSE <<"(", NL, SP, SP>> \o join(<<NL, SP, SP>>, arguments) \o <<NL, ")">>

\* the braces of the selection templates: __typename first when asked for,
\* then the selections, each on its line one level in; nothing at all when
\* there is neither
selection_block(fields, typename) ==
    IF Len(fields) = 0 /\ ~typename.b THEN <<>>
    ELSE <<SP, "{", NL>>
         \o (IF typename.b THEN <<SP, SP, "_", "_", "typename", NL>> ELSE <<>>)
         \o (IF Len(fields) = 0 THEN <<>>
             ELSE <<SP, SP>> \o join(<<NL, SP, SP>>, fields) \o <<NL>>)
         \o <<"}">>

(* ------------------------------- Field ------------------------------- *)

graphql_field_name(v) == assert_name(v)

graphql_field_alias(v) == IF v # None THEN assert_name(v) ELSE FOk(v)

NewField(kw) ==
    LET res ==
        [name |-> validated(RequiredStr(kw.name),
                 graphql_field_name(RequiredStr(kw.name).v)),
         alias |-> validated(OptionalStr(kw.alias),
                 graphql_field_alias(OptionalStr(kw.alias).v)),
         arguments |-> ArgumentList(kw.arguments),
         fields |-> validated(SelectionList(kw.fields), NoCheck(SelectionList(kw.fields).v)),
         typename |-> BoolField(kw.typename)]
    IN validate_model(<<"name", "alias", "arguments", "fields", "typename">>, res,
        [t |-> "Field",
         name |-> res.name.v,
         alias |-> res.alias.v,
         arguments |-> res.arguments.v,
         fields |-> res.fields.v,
         typename |-> res.typename.v])

\* field.jinja2
field_jinja2(name, alias, arguments, fields, typename) ==
    (IF alias # None THEN alias.s \o <<":", SP>> ELSE <<>>) \o name.s
    \o arguments_block(arguments) \o selection_block(fields, typename)

Field_render(self) ==
    field_jinja2(self.name, self.alias,
                 [i \in 1..Len(self.arguments.xs) |-> shifted(self.arguments.xs[i])],
                 [i \in 1..Len(self.fields.xs) |-> _render_field(self.fields.xs[i])],
                 self.typename)

(* --------------------------- InlineFragment -------------------------- *)

graphql_inline_fragment_fields(v) == IF Len(v.xs) = 0 THEN FExc("ValueError") ELSE FOk(v)

NewInlineFragment(kw) ==
    LET res ==
        [type |-> validated(RequiredStr(kw.type), NoCheck(RequiredStr(kw.type).v)),
         arguments |-> ArgumentList(kw.arguments),
         fields |-> validated(SelectionList(kw.fields),
                 graphql_inline_fragment_fields(SelectionList(kw.fields).v)),
         typename |-> BoolField(kw.typename)]
    IN validate_model(<<"type", "arguments", "fields", "typename">>, res,
        [t |-> "InlineFragment",
         type |-> res.type.v,
         arguments |-> res.arguments.v,
         fields |-> res.fields.v,
         typename |-> res.typename.v])

\* inline_fragment.jinja2
inline_fragment_jinja2(type, arguments, fields, typename) ==
    <<"...", SP, "on", SP>> \o type.s
    \o arguments_block(arguments) \o selection_block(fields, typename)

InlineFragment_render(self) ==
    inline_fragment_jinja2(self.type,
                           [i \in 1..Len(self.arguments.xs) |-> shifted(self.arguments.xs[i])],
                           [i \in 1..Len(self.fields.xs) |-> _render_field(self.fields.xs[i])],
                           self.typename)

(* ------------------------------ Fragment ----------------------------- *)

graphql_fragment_name(v) == assert_name(v)

graphql_fragment_fields(v) == IF Len(v.xs) = 0 THEN FExc("ValueError") ELSE FOk(v)

NewFragment(kw) ==
    LET res ==
        [name |-> validated(RequiredStr(kw.name),
                 graphql_fragment_name(RequiredStr(kw.name).v)),
         type |-> validated(RequiredStr(kw.type), NoCheck(RequiredStr(kw.type).v)),
         fields |-> validated(SelectionList(kw.fields),
                 graphql_fragment_fields(SelectionList(kw.fields).v)),
         typename |-> BoolField(kw.typename)]
    IN validate_model(<<"name", "type", "fields", "typename">>, res,
        [t |-> "Fragment",
         name |-> res.name.v,
         type |-> res.type.v,
         fields |-> res.fields.v,
         typename |-> res.typename.v])

\* fragment.jinja2
fragment_jinja2(name, type, fields, typename) ==
    <<"fragment", SP>> \o name.s \o <<SP, "on", SP>> \o type.s
    \o selection_block(fields, typename)

Fragment_render(self) ==
    fragment_jinja2(self.name, self.type,
                    [i \in 1..Len(self.fields.xs) |-> _render_field(self.fields.xs[i])],
                    self.typename)

(* ------------------------------- Query ------------------------------- *)

\* a validator of the name that accepts any str
graphql_query_name_unchecked(v) == FOk(v)

graphql_query_name(v) == assert_name(v)

graphql_alias_alias(v) == IF v # None THEN assert_name(v) ELSE FOk(v)

graphql_query_fields(v) == IF Len(v.xs) = 0 THEN FExc("ValueError") ELSE FOk(v)

NewQuery(kw) ==
    LET res ==
        [name |-> validated(RequiredStr(kw.name),
                 graphql_query_name(RequiredStr(kw.name).v)),
         alias |-> validated(OptionalStr(kw.alias),
                 graphql_alias_alias(OptionalStr(kw.alias).v)),
         arguments |-> ArgumentList(kw.arguments),
         typename |-> BoolField(kw.typename),
         fields |-> validated(SelectionList(kw.fields),
                 graphql_query_fields(SelectionList(kw.fields).v))]
    IN validate_model(<<"name", "alias", "arguments", "typename", "fields">>, res,
        [t |-> "Query",
         name |-> res.name.v,
         alias |-> res.alias.v,
         arguments |-> res.arguments.v,
         typename |-> res.typename.v,
         fields |-> res.fields.v])

\* query.jinja2
query_jinja2(name, alias, arguments, typename, fields) ==
    (IF alias # None THEN alias.s \o <<":", SP>> ELSE <<>>) \o name.s
    \o arguments_block(arguments) \o selection_block(fields, typename)

Query_render(self) ==
    query_jinja2(self.name, self.alias,
                 [i \in 1..Len(self.arguments.xs) |-> shifted(self.arguments.xs[i])],
                 self.typename,
                 [i \in 1..Len(self.fields.xs) |-> _render_field(self.fields.xs[i])])

(* ----------------------------- Operation ----------------------------- *)

\* type: str = PydanticField(default="query"); no validator reads
\* _supported_types
Operation_type(v) ==
    IF v = Missing THEN FOk(Str(<<"query">>))
    ELSE IF v = None THEN FErr
    ELSE str_validator(v)

_supported_types == {Str(<<"query">>), Str(<<"mutation">>), Str(<<"subscription">>)}

graphql_operation_name(v) == IF v # None THEN assert_name(v) ELSE FOk(v)

\* a validator of queries that accepts the empty list
graphql_queries_unchecked(v) == FOk(v)

graphql_queries(v) == IF Len(v.xs) = 0 THEN FExc("ValueError") ELSE FOk(v)

\* default_factory=List[...]: typing.List[X]() raises TypeError("Type List
\* cannot be instantiated; use list() instead")
typing_List_call == FExc("TypeError")

\* a field List[cls] whose default factory is typing.List[cls] (the inputs
\* hold no entity of another class that cls.validate could coerce)
TypedList(v, cls) ==
    IF v = Missing THEN typing_List_call
    ELSE IF v.t # "list" THEN FErr
    ELSE IF \A i \in 1..Len(v.xs) : v.xs[i].t = cls THEN FOk(v)
    ELSE FErr

NewOperation(kw) ==
    LET res ==
        [type |-> Operation_type(kw.type),
         name |-> validated(OptionalStr(kw.name),
                 graphql_operation_name(OptionalStr(kw.name).v)),
         variables |-> validated(TypedList(kw.variables, "Variable"),
                 NoCheck(TypedList(kw.variables, "Variable").v)),
         queries |-> validated(TypedList(kw.queries, "Query"),
                 graphql_queries(TypedList(kw.queries, "Query").v)),
         fragments |-> validated(TypedList(kw.fragments, "Fragment"),
                 NoCheck(TypedList(kw.fragments, "Fragment").v))]
    IN validate_model(<<"type", "name", "variables", "queries", "fragments">>, res,
        [t |-> "Operation",
         type |-> res.type.v,
         name |-> res.name.v,
         variables |-> res.variables.v,
         queries |-> res.queries.v,
         fragments |-> res.fragments.v])

\* operation.jinja2: the keyword, the name, the variables in parentheses,
\* the queries in braces one level in, then the fragment definitions
operation_jinja2(type, name, variables, queries, fragments) ==
    type.s
    \o (IF name # None THEN <<SP>> \o name.s ELSE <<>>)
    \o (IF Len(variables) = 0 THEN <<>>
        ELSE <<"(">> \o join(<<",", SP>>, variables) \o <<")">>)
    \o <<SP, "{", NL>>
    \o (IF Len(queries) = 0 THEN <<>>
        ELSE <<SP, SP>> \o join(<<NL, SP, SP>>, queries) \o <<NL>>)
    \o <<"}">>
    \o (IF Len(fragments) = 0 THEN <<>>
        ELSE <<NL, NL>> \o join(<<NL, NL>>, fragments))

\* [f(x) for x in reversed(xs)]

\* the render of an Operation that walks its queries from the last one
Operation_render_reversed(self) ==
    operation_jinja2(self.type, self.name,
                     [i \in 1..Len(self.variables.xs) |-> shifted(self.variables.xs[i])],
                     [i \in 1..Len(self.queries.xs) |-> shifted(self.queries.xs[Len(self.queries.xs) + 1 - i])],
                     [i \in 1..Len(self.fragments.xs) |-> render(self.fragments.xs[i])])

Operation_render(self) ==
    operation_jinja2(self.type, self.name,
                     [i \in 1..Len(self.variables.xs) |-> shifted(self.variables.xs[i])],
                     [i \in 1..Len(self.queries.xs) |-> shifted(self.queries.xs[i])],
                     [i \in 1..Len(self.fragments.xs) |-> render(self.fragments.xs[i])])

(* ------------------------------ render ------------------------------- *)

\* v.render(), where it returns
render(v) ==
    CASE v.t = "Variable" -> Variable_render(v)
      [] v.t = "Argument" -> Argument_render(v)
      [] v.t = "Field" -> Field_render(v)
      [] v.t = "InlineFragment" -> InlineFragment_render(v)
      [] v.t = "Fragment" -> Fragment_render(v)
      [] v.t = "Query" -> Query_render(v)
      [] v.t = "Operation" -> Operation_render(v)

\* v.render() raises: the base class always (NotImplementedError), the
\* others where a comprehension meets a value it cannot walk or render
render_raises(v) ==
    CASE v.t = "GraphQL2PythonQuery" -> TRUE
      [] v.t = "Variable" -> FALSE
      [] v.t = "Argument" -> Argument_raises(v)
      [] v.t \in {"Field", "InlineFragment", "Query"} ->
            each_raises(v.arguments) \/ fields_raise(v.fields)
      [] v.t = "Fragment" -> fields_raise(v.fields)
      [] v.t = "Operation" ->
            each_raises(v.variables) \/ each_raises(v.queries) \/ each_raises(v.fragments)

(* ------------------------------ inputs ------------------------------- *)

NameInputs == {Str(<<"a">>), Str(<<"_", "1">>), Str(<<"1", "a">>), Str(<<"a", "-">>),
               Str(<<>>), Missing}
OptionalNameInputs == {Missing, None, Str(<<"b">>), Str(<<"1", "a">>)}
TypeInputs == {Str(<<"T">>), Str(<<"U", "!">>), Missing}
DefaultInputs == {Missing, None, Str(<<"D">>)}
BoolInputs == {Missing, Bool(TRUE)}

\* the entity a constructor call returns
Built(r) == r.v

\* every Variable the constructor returns on the inputs above
Variables ==
    {Built(r) : r \in {q \in {NewVariable([name |-> n, type |-> ty, default |-> d]) :
                                n \in NameInputs, ty \in TypeInputs, d \in DefaultInputs} :
                       q.how = "returned"}}

V1 == Built(NewVariable([name |-> Str(<<"a">>), type |-> Str(<<"T">>), default |-> Missing]))
V2 == Built(NewVariable([name |-> Str(<<"a">>), type |-> Str(<<"U", "!">>),
                         default |-> Str(<<"D">>)]))

\* two arguments of one name: a literal and a reference to a variable
A1 == Built(NewArgument([name |-> Str(<<"a">>), value |-> Str(<<"1">>)]))
A2 == Built(NewArgument([name |-> Str(<<"a">>), value |-> V2]))
\* an argument that renders to several lines
A3 == Built(NewArgument([name |-> Str(<<"a">>), value |-> List(<<A1, A2>>)]))

\* an argument nested to depth d: by turns an object around the argument of
\* the depth below and a list that holds it
NestedAt[d \in 0..(MaxDepth + 1)] ==
    IF d = 0 THEN A1
    ELSE IF d % 2 = 1
         THEN Built(NewArgument([name |-> Str(<<"b">>), value |-> NestedAt[d - 1]]))
         ELSE Built(NewArgument([name |-> Str(<<"b">>),
                                 value |-> List(<<A2, NestedAt[d - 1]>>)]))

NestedArguments == {A1, A2} \cup {NestedAt[d] : d \in 1..(MaxDepth - 1)}

ArgumentValueInputs ==
    {Missing, None, Str(<<"1">>), PyInt(5), List(<<V1>>)}
    \cup Variables \cup NestedArguments
    \cup {List(xs) : xs \in SeqsUpTo(NestedArguments, MaxList)}

ArgumentListInputs == {Missing} \cup {List(xs) : xs \in SeqsUpTo({A1, A3}, MaxList)}

\* the selections nested to depth d, one of each kind: a name, and a field,
\* an inline fragment and a fragment around the selections of the depth
\* below; at depth 0 a name that holds a newline
KidsAt[d \in 0..(MaxDepth + 1)] ==
    IF d = 0 THEN <<Str(<<"y", NL, "z">>)>>
    ELSE <<Str(<<"x">>),
           Built(NewField([name |-> Str(<<"a">>), alias |-> Str(<<"b">>),
                           arguments |-> Missing, fields |-> List(KidsAt[d - 1]),
                           typename |-> Bool(TRUE)])),
           Built(NewInlineFragment([type |-> Str(<<"T">>), arguments |-> Missing,
                                    fields |-> List(KidsAt[d - 1]),
                                    typename |-> Missing])),
           Built(NewFragment([name |-> Str(<<"f", Digits[d + 1]>>), type |-> Str(<<"T">>),
                              fields |-> List(KidsAt[d - 1]), typename |-> Missing]))>>

Kids == {KidsAt[MaxDepth - 1][i] : i \in 1..Len(KidsAt[MaxDepth - 1])}

F1 == KidsAt[1][4]
F2 == KidsAt[MaxDepth][4]

SelectionInputs ==
    {Missing, List(<<None>>)} \cup {List(xs) : xs \in SeqsUpTo(Kids, MaxList)}

\* a query that spreads F1 twice and a query over one selection of each kind
Q1 == Built(NewQuery([name |-> Str(<<"a">>), alias |-> Missing, arguments |-> Missing,
                      typename |-> Missing, fields |-> List(<<F1, F1>>)]))
Q2 == Built(NewQuery([name |-> Str(<<"_", "1">>), alias |-> Str(<<"b">>),
                      arguments |-> List(<<A1>>), typename |-> Bool(TRUE),
                      fields |-> List(KidsAt[MaxDepth - 1])]))

OperationTypeInputs == {Missing, Str(<<"query">>), Str(<<"mutation">>),
                        Str(<<"subscription">>), Str(<<"select">>)}
VariableListInputs == {Missing} \cup {List(xs) : xs \in SeqsUpTo({V1, V2}, MaxList)}
QueryListInputs == {Missing} \cup {List(xs) : xs \in SeqsUpTo({Q1, Q2}, MaxList)}
FragmentListInputs == {Missing} \cup {List(xs) : xs \in SeqsUpTo({F1, F2}, MaxList)}

\* The validators of a class read one field each and render() walks the
\* lists one by one, so a call varies either its names and flags, the lists
\* holding one member at most, or its lists, the names and flags plain.
Short(l) == IF l.t = "list" THEN Len(l.xs) <= 1 ELSE TRUE
Plain(v) == IF v.t = "str" THEN v.s \in {<<"a">>, <<"T">>} ELSE v.t = "Missing"

\* the fields a caller writes and the value written
WriteAttrs == {"fields", "queries"}
WriteValues == {List(<<>>)}

(* ------------------------------ actions ------------------------------ *)

Init ==
    /\ call = [op |-> "import"]
    /\ obj = None
    /\ result = Returned(None)
    /\ writes = 0

\* no entity is bound: the module is imported, or the last entity was dropped.
\* The model follows one entity at a time from its construction on (the
\* constructors read nothing but their arguments)
Fresh == call.op = "import"

\* the call x = cls(**kw)
Call(cls, kw) == [op |-> "construct", cls |-> cls, kw |-> kw]

\* what x is bound to after it: the entity, or nothing when the call raised
Bound(r) == IF r.how = "returned" THEN r.v ELSE None

\* the base class declares no field and validates nothing
ConstructBase ==
    /\ Fresh
    /\ call' = Call("GraphQL2PythonQuery", [none |-> None])
    /\ result' = Returned([t |-> "GraphQL2PythonQuery"])
    /\ obj' = [t |-> "GraphQL2PythonQuery"]
    /\ writes' = 0

ConstructVariable ==
    /\ Fresh
    /\ \E n \in NameInputs, ty \in TypeInputs, d \in DefaultInputs :
           LET kw == [name |-> n, type |-> ty, default |-> d]
               r == NewVariable(kw)
           IN /\ call' = Call("Variable", kw)
              /\ result' = r
              /\ obj' = Bound(r)
              /\ writes' = 0

ConstructArgument ==
    /\ Fresh
    /\ \E n \in NameInputs, v \in ArgumentValueInputs :
           /\ IF Short(v) THEN TRUE ELSE Plain(n)
           /\ LET kw == [name |-> n, value |-> v]
                  r == NewArgument(kw)
              IN /\ call' = Call("Argument", kw)
                 /\ result' = r
                 /\ obj' = Bound(r)
                 /\ writes' = 0

ConstructField ==
    /\ Fresh
    /\ \E n \in NameInputs, a \in OptionalNameInputs, args \in ArgumentListInputs,
          fs \in SelectionInputs, tn \in BoolInputs :
           /\ IF Short(args) /\ Short(fs) THEN TRUE ELSE Plain(n) /\ Plain(a) /\ Plain(tn)
           /\ LET kw == [name |-> n, alias |-> a, arguments |-> args, fields |-> fs,
                         typename |-> tn]
                  r == NewField(kw)
              IN /\ call' = Call("Field", kw)
                 /\ result' = r
                 /\ obj' = Bound(r)
                 /\ writes' = 0

ConstructInlineFragment ==
    /\ Fresh
    /\ \E ty \in TypeInputs, args \in ArgumentListInputs, fs \in SelectionInputs,
          tn \in BoolInputs :
           /\ IF Short(args) /\ Short(fs) THEN TRUE ELSE Plain(ty) /\ Plain(tn)
           /\ LET kw == [type |-> ty, arguments |-> args, fields |-> fs, typename |-> tn]
                  r == NewInlineFragment(kw)
              IN /\ call' = Call("InlineFragment", kw)
                 /\ result' = r
                 /\ obj' = Bound(r)
                 /\ writes' = 0

ConstructFragment ==
    /\ Fresh
    /\ \E n \in NameInputs, ty \in TypeInputs, fs \in SelectionInputs, tn \in BoolInputs :
           /\ IF Short(fs) THEN TRUE ELSE Plain(n) /\ Plain(ty) /\ Plain(tn)
           /\ LET kw == [name |-> n, type |-> ty, fields |-> fs, typename |-> tn]
                  r == NewFragment(kw)
              IN /\ call' = Call("Fragment", kw)
                 /\ result' = r
                 /\ obj' = Bound(r)
                 /\ writes' = 0

ConstructQuery ==
    /\ Fresh
    /\ \E n \in NameInputs, a \in OptionalNameInputs, args \in ArgumentListInputs,
          fs \in SelectionInputs, tn \in BoolInputs :
           /\ IF Short(args) /\ Short(fs) THEN TRUE ELSE Plain(n) /\ Plain(a) /\ Plain(tn)
           /\ LET kw == [name |-> n, alias |-> a, arguments |-> args, typename |-> tn,
                         fields |-> fs]
                  r == NewQuery(kw)
              IN /\ call' = Call("Query", kw)
                 /\ result' = r
                 /\ obj' = Bound(r)
                 /\ writes' = 0

ConstructOperation ==
    /\ Fresh
    /\ \E ty \in OperationTypeInputs, n \in OptionalNameInputs, vs \in VariableListInputs,
          qs \in QueryListInputs, fs \in FragmentListInputs :
           /\ IF Short(vs) /\ Short(qs) /\ Short(fs) THEN TRUE
              ELSE Plain(ty) /\ Plain(n)
           /\ LET kw == [type |-> ty, name |-> n, variables |-> vs, queries |-> qs,
                         fragments |-> fs]
                  r == NewOperation(kw)
              IN /\ call' = Call("Operation", kw)
                 /\ result' = r
                 /\ obj' = Bound(r)
                 /\ writes' = 0

\* x.render()
Render ==
    /\ obj # None
    /\ call' = [op |-> "render"]
    /\ result' = IF render_raises(obj)
                 THEN Raised(IF obj.t = "GraphQL2PythonQuery" THEN "NotImplementedError"
                             ELSE "TypeError")
                 ELSE Returned(Str(render(obj)))
    /\ UNCHANGED <<obj, writes>>

\* x.attr = value under Config (extra = "forbid", mutation allowed, no
\* validation on assignment): a declared field takes the value as it is,
\* any other name raises ValueError
SetField(attr, value) ==
    /\ obj # None
    /\ call' = [op |-> "setattr", attr |-> attr, value |-> value]
    /\ IF attr \in DOMAIN obj \ {"t"}
       THEN /\ writes < MaxWrites
            /\ obj' = [obj EXCEPT ![attr] = value]
            /\ result' = Returned(None)
            /\ writes' = writes + 1
       ELSE /\ result' = Raised("ValueError")
            /\ UNCHANGED <<obj, writes>>

\* del x
Drop ==
    /\ ~Fresh
    /\ call' = [op |-> "import"]
    /\ obj' = None
    /\ result' = Returned(None)
    /\ writes' = 0

Write == \E attr \in WriteAttrs, value \in WriteValues : SetField(attr, value)

Next ==
    \/ ConstructBase
    \/ ConstructVariable
    \/ ConstructArgument
    \/ ConstructField
    \/ ConstructInlineFragment
    \/ ConstructFragment
    \/ ConstructQuery
    \/ ConstructOperation
    \/ Render
    \/ Write
    \/ Drop

Spec == Init /\ [][Next]_vars

(* ------------------------------ claims ------------------------------- *)

Constructed(cls) == call.op = "construct" /\ call.cls = cls /\ result.how = "returned"
Refused(cls) == call.op = "construct" /\ call.cls = cls /\ result.how = "raised"

\* the name grammar of the query language: a letter or an underscore, then
\* letters, digits and underscores
IsName(s) ==
    /\ Len(s) > 0
    /\ s[1] \in Letter \cup {"_"}
    /\ \A i \in 1..Len(s) : s[i] \in Letter \cup Digit \cup {"_"}

\* C1: every InlineFragment, Fragment and Query that a constructor returns
\* has at least one selection, whether the empty list was passed or the
\* fields argument was left out.
C1_EmptySelectionRejected ==
    \A cls \in {"InlineFragment", "Fragment", "Query"} :
        Constructed(cls) => Len(obj.fields.xs) > 0

\* C2: every Operation that the constructor returns has at least one query:
\* the call raises when queries is the empty list and when it is left out.
C2_QueriesNonEmpty ==
    /\ Constructed("Operation") => Len(obj.queries.xs) > 0
    /\ (call.op = "construct" /\ call.cls = "Operation"
          /\ call.kw.queries \in {Missing, List(<<>>)}) => result.how = "raised"

\* an Operation whose variables and fragments are given and whose queries
\* are the empty list is refused
C2_Witness ==
    /\ Refused("Operation")
    /\ call.kw.queries = List(<<>>)
    /\ call.kw.variables = List(<<V1>>)
    /\ call.kw.fragments = List(<<>>)
    /\ call.kw.name = Missing
    /\ call.kw.type = Missing

\* C3: the type of every Operation that the constructor returns is query,
\* mutation or subscription.
C3_OperationTypeSupported ==
    Constructed("Operation") => obj.type \in _supported_types

\* C4: no call on a constructed entity, render() or a field write, changes
\* the value of one of its fields.
C4_NeverMutated ==
    [][(call'.op \in {"render", "setattr"}) => obj' = obj]_vars

Named == {"Variable", "Argument", "Field", "Fragment", "Query"}
Aliased == {"Field", "Query"}

\* the constructor call of the state with one keyword argument replaced
Recall(kw) ==
    CASE call.cls = "Field" -> NewField(kw)
      [] call.cls = "Query" -> NewQuery(kw)
      [] call.cls = "Operation" -> NewOperation(kw)

\* C7: a name that is no legal identifier makes the constructors of
\* Variable, Argument, Field, Fragment and Query raise, and so does an
\* illegal alias of a Field or Query and an illegal name of an Operation;
\* an alias or operation name that is absent is not what a call fails on;
\* and the entity returned holds the name and alias strings as supplied.
C7_NameValidation ==
    call.op = "construct" =>
        /\ (call.cls \in Named /\ call.kw.name.t = "str" /\ ~IsName(call.kw.name.s))
              => result.how = "raised"
        /\ (call.cls \in Aliased /\ call.kw.alias.t = "str" /\ ~IsName(call.kw.alias.s))
              => result.how = "raised"
        /\ (call.cls = "Operation" /\ call.kw.name.t = "str" /\ ~IsName(call.kw.name.s))
              => result.how = "raised"
        /\ (call.cls \in Aliased /\ call.kw.alias \in {None, Missing}
              /\ result.how = "raised")
              => Recall([call.kw EXCEPT !.alias = Str(<<"b">>)]).how = "raised"
        /\ (call.cls = "Operation" /\ call.kw.name \in {None, Missing}
              /\ result.how = "raised")
              => Recall([call.kw EXCEPT !.name = Str(<<"b">>)]).how = "raised"
        /\ (call.cls \in Named /\ result.how = "returned" /\ call.kw.name.t = "str")
              => obj.name = call.kw.name
        /\ (call.cls \in Aliased /\ result.how = "returned")
              => obj.alias = (IF call.kw.alias = Missing THEN None ELSE call.kw.alias)
        /\ (call.cls = "Operation" /\ result.how = "returned")
              => obj.name = (IF call.kw.name = Missing THEN None ELSE call.kw.name)

\* a Query is returned with its name as supplied and no alias, after None
\* was passed as the alias
C7_Witness ==
    /\ Constructed("Query")
    /\ call.kw.name = Str(<<"_", "1">>)
    /\ call.kw.alias = None
    /\ obj.name = Str(<<"_", "1">>)
    /\ obj.alias = None

(* ------------------------- claims on render() ------------------------ *)

\* render() returned on an entity that no field write has touched
Rendered(classes) ==
    /\ call.op = "render"
    /\ writes = 0
    /\ result.how = "returned"
    /\ obj.t \in classes

lines(text) == split(text)

Indent(ls) == [i \in 1..Len(ls) |-> <<SP, SP>> \o ls[i]]

\* the elements of item stand in text from place k on
StandsAt(item, text, k) ==
    /\ k >= 1
    /\ k + Len(item) - 1 <= Len(text)
    /\ \A j \in 1..Len(item) : text[k + j - 1] = item[j]

Occurrences(item, text) == Cardinality({k \in 1..Len(text) : StandsAt(item, text, k)})

\* the first place from `from` on where item stands in text, 0 for none
FindFrom(item, text, from) ==
    LET ks == {k \in from..Len(text) : StandsAt(item, text, k)} IN
    IF ks = {} THEN 0 ELSE Min(ks)

RECURSIVE InOrderFrom(_, _, _)
\* the items stand in text one after the other, none over another
InOrderFrom(items, text, from) ==
    IF Len(items) = 0 THEN TRUE
    ELSE LET k == FindFrom(items[1], text, from) IN
         k # 0 /\ InOrderFrom(Tail(items), text, k + Len(items[1]))

InOrder(items, text) == InOrderFrom(items, text, 1)

\* the lines a selection takes in the text of its parent, which sets it two
\* spaces in
SelectionLines(c) ==
    IF c.t = "str" THEN lines(<<SP, SP>> \o c.s)
    ELSE IF c.t = "Fragment" THEN << <<SP, SP, "...">> \o c.name.s >>
    ELSE Indent(lines(render(c)))

EntityLines(v) == Indent(lines(render(v)))

\* the lines of a fragment definition, which stands at the left margin
DefinitionText(f) == lines(render(f))

Selecting == {"Field", "InlineFragment", "Fragment", "Query"}
WithArguments == {"Field", "InlineFragment", "Query"}

RECURSIVE Spreads(_)
\* the fragments spread in the selections of v, at any depth
Spreads(v) ==
    UNION {IF v.fields.xs[i].t = "Fragment" THEN {v.fields.xs[i]}
           ELSE IF v.fields.xs[i].t \in {"Field", "InlineFragment"}
                THEN Spreads(v.fields.xs[i])
                ELSE {} : i \in 1..Len(v.fields.xs)}

QuerySpreads(op) == UNION {Spreads(op.queries.xs[i]) : i \in 1..Len(op.queries.xs)}

\* the line of a spread of f, whatever its indentation
IsSpreadLine(l, f) ==
    \E k \in 0..Len(l) :
        /\ \A j \in 1..k : l[j] = SP
        /\ SubSeq(l, k + 1, Len(l)) = <<"...">> \o f.name.s

DefinitionLines(ls) == {i \in 1..Len(ls) : \E j \in 1..Len(ls[i]) : ls[i][j] = "fragment"}

\* C5 as stated: a fragment spread in a query shows at that site as
\* ...name, and its body stands exactly once in the text of the Operation.
C5_BodyExactlyOnce ==
    Rendered({"Operation"}) =>
        \A f \in QuerySpreads(obj) :
            /\ \E i \in 1..Len(lines(result.v.s)) : IsSpreadLine(lines(result.v.s)[i], f)
            /\ Occurrences(lines(render(f)), lines(result.v.s)) = 1

\* C5 as amended: a fragment spread in a query shows at that site as
\* ...name and nowhere in the queries as a definition; its body stands in
\* the text once for each entry of Operation.fragments that renders to it,
\* whatever the number of spreads, so not at all when it is not listed.
C5_BodyOncePerListedFragment ==
    Rendered({"Operation"}) =>
        LET ls == lines(result.v.s) IN
        /\ Cardinality(DefinitionLines(ls)) = Len(obj.fragments.xs)
        /\ \A f \in QuerySpreads(obj) :
              /\ \E i \in 1..Len(ls) : IsSpreadLine(ls[i], f)
              /\ Occurrences(lines(render(f)), ls)
                    = Cardinality({i \in 1..Len(obj.fragments.xs) :
                                      render(obj.fragments.xs[i]) = render(f)})

\* an Operation whose first query spreads F1 twice is rendered with F1
\* listed once
C5_Witness ==
    /\ Rendered({"Operation"})
    /\ obj.queries.xs[1] = Q1
    /\ obj.fragments = List(<<F1>>)
    /\ Occurrences(lines(render(F1)), lines(result.v.s)) = 1

C8_OrderPreserved ==
    /\ Rendered(WithArguments) =>
          InOrder([i \in 1..Len(obj.arguments.xs) |-> EntityLines(obj.arguments.xs[i])], lines(result.v.s))
    /\ Rendered(Selecting) =>
          InOrder([i \in 1..Len(obj.fields.xs) |-> SelectionLines(obj.fields.xs[i])], lines(result.v.s))
    /\ (Rendered({"Argument"}) /\ obj.value.t = "list") =>
          InOrder([i \in 1..Len(obj.value.xs) |-> EntityLines(obj.value.xs[i])], lines(result.v.s))
    /\ Rendered({"Operation"}) =>
          /\ InOrder([i \in 1..Len(obj.variables.xs) |-> render(obj.variables.xs[i])], result.v.s)
          /\ InOrder([i \in 1..Len(obj.queries.xs) |-> EntityLines(obj.queries.xs[i])], lines(result.v.s))
          /\ InOrder([i \in 1..Len(obj.fragments.xs) |-> DefinitionText(obj.fragments.xs[i])], lines(result.v.s))

\* an Operation over two different queries and two declarations of one
\* variable name is rendered
C8_Witness ==
    /\ Rendered({"Operation"})
    /\ obj.queries = List(<<Q2, Q1>>)
    /\ obj.variables = List(<<V2, V1>>)
    /\ obj.fragments = List(<<F2, F1>>)

Nested == {"Field", "InlineFragment"}

RECURSIVE LeadingSpaces(_)
LeadingSpaces(l) ==
    IF Len(l) > 0 /\ l[1] = SP THEN 1 + LeadingSpaces(Tail(l)) ELSE 0

\* C9: the text of a Field or InlineFragment child stands in the text of
\* its parent with every line two spaces further in, and the text of a
\* child of that child four spaces further in; a string child and a
\* Fragment child leave the helper with no indentation added.
C9_IndentOnRecurse ==
    Rendered(Selecting) =>
        LET text == lines(result.v.s) IN
        \A i \in 1..Len(obj.fields.xs) :
            LET c == obj.fields.xs[i] IN
            /\ c.t \in Nested =>
                  LET child == lines(render(c))
                      inside == Indent(child)
                  IN /\ LeadingSpaces(child[1]) = 0
                     /\ \E k \in 1..Len(text) :
                           /\ text[k] = <<SP, SP>> \o child[1]
                           /\ LeadingSpaces(text[k]) = 2
                     /\ \E k \in 1..Len(text) : StandsAt(inside, text, k)
                     /\ \A j \in 1..Len(c.fields.xs) :
                           c.fields.xs[j].t \in Nested =>
                               LET deeper == Indent(Indent(lines(render(c.fields.xs[j]))))
                               IN \E k \in 1..Len(text) : StandsAt(deeper, text, k)
            /\ c.t = "str" => _render_field(c) = c.s
            /\ c.t = "Fragment" => _render_field(c) = <<"...">> \o c.name.s

\* a Field is rendered whose first selection is a Field that selects a
\* Field of several lines
C9_Witness ==
    /\ Rendered({"Field"})
    /\ Len(obj.fields.xs) > 0
    /\ obj.fields.xs[1].t = "Field"
    /\ \E j \in 1..Len(obj.fields.xs[1].fields.xs) :
          /\ obj.fields.xs[1].fields.xs[j].t = "Field"
          /\ Len(lines(render(obj.fields.xs[1].fields.xs[j]))) > 1

\* C10: the text of Argument.render() is that of the one template that the
\* variant of value selects; for a Variable it is `name: $variable`, the
\* same for every Variable of that name whatever its type and default.
C10_ArgumentShapes ==
    Rendered({"Argument"}) =>
        /\ obj.value.t = "str" =>
              result.v.s = obj.name.s \o <<":", SP>> \o obj.value.s
        /\ obj.value.t = "Argument" =>
              result.v.s = argument_key_argument_jinja2(obj.name, shifted(obj.value))
        /\ obj.value.t = "list" =>
              result.v.s = argument_key_arguments_jinja2(obj.name,
                               [i \in 1..Len(obj.value.xs) |-> shifted(obj.value.xs[i])])
        /\ obj.value.t = "Variable" =>
              /\ result.v.s = obj.name.s \o <<":", SP, "$">> \o obj.value.name.s
              /\ \A w \in Variables :
                    w.name = obj.value.name =>
                        render([obj EXCEPT !.value = w]) = result.v.s

\* an Argument that refers to a Variable with a type and a default is
\* rendered, and a Variable of the same name and another type exists
C10_Witness ==
    /\ Rendered({"Argument"})
    /\ obj.value = V2
    /\ V1.name = V2.name /\ V1.type # V2.type /\ V1.default # V2.default
    /\ V1 \in Variables

====
